---- MODULE Spec2Model ----
(***************************************************************************)
(* Model of the PNGInfo sidebar: the image uploader (ImageUploader.js), its *)
(* JPEG/EXIF reader and the Forge generation-text parser                   *)
(* (read_prompt_forge.js).                                                 *)
(*                                                                         *)
(* A JavaScript string is a sequence of one-character strings; a byte      *)
(* buffer is a sequence of numbers 0..255.  Markup that the code itself    *)
(* inserts into a report value ("<br>", "&lt", a colour marker) is one     *)
(* element of the sequence, so that it stays distinguishable from the      *)
(* characters taken from the annotation.                                   *)
(***************************************************************************)
EXTENDS Integers, Sequences, FiniteSets, TLC

VARIABLES
    pc,         \* position of the operation under study: "start" or "done"
                \* ("scan" inside the marker loop of readEXIFMetadata)
    text,       \* parseParameters: the settings line given to it
    parts,      \* parseParameters: the result of text.split(...)
    params,     \* parseParameters: the returned list of {key, value}
    raw,        \* ForgeUI: this.raw, the annotation given to the constructor
    colors,     \* options.colors is defined (TRUE) or undefined (FALSE)
    forge,      \* ForgeUI: the fields run() leaves behind
    metadata,   \* parceMetadata: its argument
    parce,      \* parceMetadata: what it did and returned
    jpeg,       \* readEXIFMetadata: the bytes of the file
    exif,       \* readEXIFMetadata: its outcome, with readEXIFData's locals
    scanOffset, \* readEXIFMetadata: the local `offset` of its marker loop
    tagIn,      \* readTagValue: its arguments
    tagOut,     \* readTagValue: its return value
    currentObjectURL,   \* ImageUploader: 0 for null, else the URL's number
    created,    \* how many object URLs URL.createObjectURL has handed out
    revoked,    \* the object URLs given to URL.revokeObjectURL
    calls,      \* the displayImage calls made so far, in order
    container,  \* what innerContainer shows: the img's src and the report
    toasts,     \* the toasts shown so far, in order
    microtasks  \* the calls whose next continuation waits to run, in order

paramsVars == <<text, parts, params>>
forgeVars == <<raw, forge>>
parceVars == <<metadata, parce>>
exifVars == <<jpeg, exif, scanOffset>>
tagVars == <<tagIn, tagOut>>
uploaderVars ==
    <<currentObjectURL, created, revoked, calls, container, toasts, microtasks>>
pureVars == <<paramsVars, forgeVars, parceVars, exifVars, tagVars>>
vars == <<pc, colors, pureVars, uploaderVars>>

(***************************************************************************)
(* Bounds of the model.                                                    *)
(***************************************************************************)
MaxLineLen == 5
MaxRawTokens == 3
MaxParceTokens == 2
MaxCount == 11
MaxPayload == 12
MaxEntries == 2
MaxSelects == 2
MaxSettings == 3
MaxSegments == 2

(***************************************************************************)
(* JavaScript string primitives.                                           *)
(***************************************************************************)
QUOTE == "\""

\* The white space and line terminators String.prototype.trim removes, among
\* the characters of code 0 to 255 (see CharTable for their names).
IsSpace(c) == c \in {" ", "\n", "\t", "\r", "x0B", "x0C", "xA0"}

RECURSIVE TrimStart(_)
TrimStart(s) == IF s # <<>> /\ IsSpace(Head(s)) THEN TrimStart(Tail(s)) ELSE s

RECURSIVE TrimEnd(_)
TrimEnd(s) ==
    IF s # <<>> /\ IsSpace(s[Len(s)]) THEN TrimEnd(SubSeq(s, 1, Len(s) - 1)) ELSE s

Trim(s) == TrimEnd(TrimStart(s))

\* s.indexOf(c) for a one-character c: 0-based, -1 when absent.
IndexOf(s, c) ==
    IF \E i \in 1..Len(s) : s[i] = c
    THEN (CHOOSE i \in 1..Len(s) : s[i] = c /\ \A j \in 1..(i - 1) : s[j] # c) - 1
    ELSE -1

\* s.slice(from) and s.slice(from, to) with 0-based non-negative arguments.
SliceFrom(s, from) == SubSeq(s, from + 1, Len(s))
Slice(s, from, to) == SubSeq(s, from + 1, to)

\* The pieces of s between the one-character delimiters at positions D
\* (1-based), as String.prototype.split returns them: Cardinality(D) + 1
\* pieces, empty ones included.
CutAt(s, D) ==
    LET n == Cardinality(D)
        pos(k) == IF k = 0 THEN 0
                  ELSE IF k = n + 1 THEN Len(s) + 1
                  ELSE CHOOSE p \in D : Cardinality({q \in D : q < p}) = k - 1
    IN  [k \in 1..(n + 1) |-> SubSeq(s, pos(k - 1) + 1, pos(k) - 1)]

\* All strings over alphabet A of length at most n.
StringsUpTo(A, n) == UNION {[1..k -> A] : k \in 0..n}

(***************************************************************************)
(* ForgeUI.parseParameters                                                 *)
(***************************************************************************)
QuoteCount(s) == Cardinality({i \in 1..Len(s) : s[i] = QUOTE})

\* The positions matched by /,(?=(?:(?:[^"]*"){2})*[^"]*$)/ : a comma after
\* which an even number of double quotes remains up to the end of the text.
SplitPositions(t) ==
    {i \in 1..Len(t) : t[i] = "," /\ QuoteCount(SubSeq(t, i + 1, Len(t))) % 2 = 0}

SplitParts(t) == CutAt(t, SplitPositions(t))

\* One part that passed the two `continue` tests, as the pushed {key, value}.
ParamEntry(part) ==
    LET colonIndex == IndexOf(part, ":")
        key == Trim(Slice(part, 0, colonIndex))
        value == Trim(SliceFrom(part, colonIndex + 1))
    IN  [key |-> key,
         value |-> IF value # <<>> /\ value[1] = QUOTE /\ value[Len(value)] = QUOTE
                   THEN SubSeq(value, 2, Len(value) - 1)
                   ELSE value]

PartKept(part) == Trim(part) # <<>> /\ IndexOf(part, ":") # -1

ParamsOfParts(ps) ==
    LET kept == SelectSeq(ps, PartKept)
    IN  [i \in 1..Len(kept) |-> ParamEntry(kept[i])]

parseParameters(t) == ParamsOfParts(SplitParts(t))

(***************************************************************************)
(* Helpers of the base class (read_prompt_base.js), which is not among the *)
(* sources: modelled from the specification's description of them.         *)
(***************************************************************************)
\* escapeHTML: each HTML-special character becomes one entity element.  A
\* style marker of options.colors is markup: escaping it would change it.
EscapeChar(c) ==
    CASE c = "&" -> "&amp;"
      [] c = "color_int" -> "&lt;color_int&gt;"
      [] c = "color_file" -> "&lt;color_file&gt;"
      [] c = "color_default" -> "&lt;color_default&gt;"
      [] c = "<" -> "&lt;"
      [] c = ">" -> "&gt;"
      [] c = QUOTE -> "&quot;"
      [] c = "'" -> "&#39;"
      [] OTHER -> c

escapeHTML(s) == [i \in 1..Len(s) |-> EscapeChar(s[i])]

Digits == {"0", "1", "2", "3", "4", "5", "6", "7", "8", "9"}

\* isNumber: the numeric-string predicate: digits with at most one '.'
\* and an optional leading '-'.
isNumber(s) ==
    LET body == IF s # <<>> /\ Head(s) = "-" THEN Tail(s) ELSE s
    IN  /\ \E i \in 1..Len(body) : body[i] \in Digits
        /\ \A i \in 1..Len(body) : body[i] \in Digits \cup {"."}
        /\ Cardinality({i \in 1..Len(body) : body[i] = "."}) <= 1

WrapPairs == {<<QUOTE, QUOTE>>, <<"'", "'">>, <<"(", ")">>, <<"[", "]">>, <<"{", "}">>}

\* cleanEdges: surrounding whitespace and one layer of matched wrapping
\* punctuation are removed; nothing inside is touched.
cleanEdges(s) ==
    LET t == Trim(s)
    IN  IF Len(t) >= 2 /\ <<t[1], t[Len(t)]>> \in WrapPairs
        THEN Trim(SubSeq(t, 2, Len(t) - 1))
        ELSE t

(***************************************************************************)
(* ForgeUI.run                                                             *)
(***************************************************************************)
Separator ==
    <<"N", "e", "g", "a", "t", "i", "v", "e", " ", "p", "r", "o", "m", "p", "t", ":">>

\* s.indexOf(sub) for a string sub: 0-based, -1 when absent.
IndexOfSub(s, sub) ==
    LET at(i) == i + Len(sub) <= Len(s) /\ SubSeq(s, i + 1, i + Len(sub)) = sub
    IN  IF \E i \in 0..Len(s) : at(i)
        THEN CHOOSE i \in 0..Len(s) : at(i) /\ \A j \in 0..(i - 1) : ~at(j)
        ELSE -1

Lines(r) == CutAt(r, {i \in 1..Len(r) : r[i] = "\n"})

RECURSIVE JoinLines(_)
JoinLines(ls) ==
    IF Len(ls) = 0 THEN <<>>
    ELSE IF Len(ls) = 1 THEN ls[1]
    ELSE ls[1] \o <<"\n">> \o JoinLines(Tail(ls))

LastLine(r) == LET lines == Lines(r) IN lines[Len(lines)]

MutFirstLine(r) == r

FirstLine(r) ==
    LET lines == Lines(r)
    IN  IF Len(lines) = 1 THEN lines[1]
        ELSE JoinLines(SubSeq(lines, 1, Len(lines) - 1))

\* The positive and negative prompt as split at the separator and trimmed.
SplitPrompt(first_line) ==
    LET separatorIndex == IndexOfSub(first_line, Separator)
    IN  IF separatorIndex # -1
        THEN [positive |-> Trim(Slice(first_line, 0, separatorIndex)),
              negative |-> Trim(SliceFrom(first_line, separatorIndex + Len(Separator)))]
        ELSE [positive |-> Trim(first_line), negative |-> <<>>]

\* The matches of /<[^>]+>/g in s from position i on, as <<first, last>>
\* pairs, leftmost first and not overlapping.
RECURSIVE LoraSpans(_, _)
LoraSpans(s, i) ==
    IF i > Len(s) THEN <<>>
    ELSE IF s[i] = "<" /\ \E j \in (i + 2)..Len(s) :
                              s[j] = ">" /\ \A k \in (i + 1)..(j - 1) : s[k] # ">"
    THEN LET j == CHOOSE j \in (i + 2)..Len(s) :
                      s[j] = ">" /\ \A k \in (i + 1)..(j - 1) : s[k] # ">"
         IN  <<(<<i, j>>)>> \o LoraSpans(s, j + 1)
    ELSE LoraSpans(s, i + 1)

\* positive.match(/<[^>]+>/g): the matched texts; <<>> stands for null.
LoraMatch(s) ==
    LET spans == LoraSpans(s, 1)
    IN  [k \in 1..Len(spans) |-> SubSeq(s, spans[k][1], spans[k][2])]

\* positive.replace(/<[^>]+>/g, "").
LoraRemove(s) ==
    LET spans == LoraSpans(s, 1)
        inSpan(i) == \E k \in 1..Len(spans) : spans[k][1] <= i /\ i <= spans[k][2]
        keep == {i \in 1..Len(s) : ~inSpan(i)}
        nth(n) == CHOOSE i \in keep : Cardinality({q \in keep : q < i}) = n - 1
    IN  [n \in 1..Cardinality(keep) |-> s[nth(n)]]

LineTerminator(c) == c \in {"\n", "\r"}

\* One match of /<(.*?):(.*?):(.*?)>/ starting at position p of s: the
\* lazy groups end at the first ':' , ':' and '>' that let the rest match,
\* and '.' matches no line terminator.
LoraShapeAt(s, p) ==
    {m \in (1..Len(s)) \X (1..Len(s)) \X (1..Len(s)) :
        /\ p < m[1] /\ m[1] < m[2] /\ m[2] < m[3]
        /\ s[p] = "<" /\ s[m[1]] = ":" /\ s[m[2]] = ":" /\ s[m[3]] = ">"
        /\ \A k \in (p + 1)..(m[3] - 1) :
              k \notin {m[1], m[2]} => ~LineTerminator(s[k])}

LoraShapeFirst(s, p) ==
    LET M == LoraShapeAt(s, p)
    IN  CHOOSE m \in M : \A o \in M :
            \/ m[1] < o[1]
            \/ m[1] = o[1] /\ m[2] < o[2]
            \/ m[1] = o[1] /\ m[2] = o[2] /\ m[3] <= o[3]

\* lora[i].replace(/<(.*?):(.*?):(.*?)>/g, `&lt$1:${color_file}$2...&gt`)
RECURSIVE LoraFormat(_, _)
LoraFormat(s, i) ==
    IF i > Len(s) THEN <<>>
    ELSE IF LoraShapeAt(s, i) # {}
    THEN LET m == LoraShapeFirst(s, i)
         IN  <<"&lt">> \o SubSeq(s, i + 1, m[1] - 1) \o <<":", "color_file">>
                \o SubSeq(s, m[1] + 1, m[2] - 1) \o <<"color_default", ":", "color_int">>
                \o SubSeq(s, m[2] + 1, m[3] - 1) \o <<"color_default", "&gt">>
                \o LoraFormat(s, m[3] + 1)
    ELSE <<s[i]>> \o LoraFormat(s, i + 1)

RECURSIVE LoraText(_)
LoraText(lora) ==
    IF lora = <<>> THEN <<>>
    ELSE LET rest == SubSeq(lora, 1, Len(lora) - 1)
         IN  LoraText(rest) \o <<"<br>">> \o LoraFormat(lora[Len(lora)], 1)

MutSetKey(result, k, v) == Append(result, [key |-> k, value |-> v])

\* result[k] = v on an object whose keys are never integer-like: an
\* existing key keeps its place, a new one goes last.
SetKey(result, k, v) ==
    IF \E i \in 1..Len(result) : result[i].key = k
    THEN [i \in 1..Len(result) |->
            IF result[i].key = k THEN [key |-> k, value |-> v] ELSE result[i]]
    ELSE Append(result, [key |-> k, value |-> v])

ModelKey == <<"M", "o", "d", "e", "l">>

\* The params loop with the escaping done after the marker is prepended.
MutParamValue(obj) ==
    IF isNumber(obj.value) THEN escapeHTML(<<"color_int">> \o obj.value)
    ELSE IF escapeHTML(obj.key) = ModelKey THEN escapeHTML(<<"color_file">> \o obj.value)
    ELSE escapeHTML(obj.value)

\* The entry the params loop writes for one {key, value}.
ParamKey(obj) == escapeHTML(obj.key) \o <<":", " ">>

ParamValue(obj) ==
    IF isNumber(obj.value) THEN <<"color_int">> \o escapeHTML(obj.value)
    ELSE IF escapeHTML(obj.key) = ModelKey THEN <<"color_file">> \o escapeHTML(obj.value)
    ELSE escapeHTML(obj.value)

\* The params loop reads this.options.colors for this entry.
ParamReadsColors(obj) == isNumber(obj.value) \/ escapeHTML(obj.key) = ModelKey

RECURSIVE AddParams(_, _)
AddParams(result, ps) ==
    IF ps = <<>> THEN result
    ELSE AddParams(SetKey(result, ParamKey(Head(ps)), ParamValue(Head(ps))), Tail(ps))

\* The object a freshly constructed ForgeUI is.
ForgeConstructed ==
    [threw |-> FALSE, positive |-> <<>>, negative |-> <<>>, lora |-> <<>>,
     params |-> <<>>, output |-> <<>>]

\* run(): the fields it leaves, and whether it threw.  With options.colors
\* undefined the first read of a colour raises a TypeError, which run()
\* rethrows after the fields assigned so far.
ForgeRun(r, colorsDefined) ==
    LET last_line == LastLine(r)
        first_line == FirstLine(r)
        split == SplitPrompt(first_line)
        lora == LoraMatch(split.positive)
        positive == cleanEdges(LoraRemove(split.positive))
        negative == cleanEdges(split.negative)
        r1 == <<[key |-> <<"Prompt:<br>">>, value |-> escapeHTML(positive)]>>
        r2 == IF negative # <<>>
              THEN SetKey(r1, <<"Negative Prompt:<br>">>, escapeHTML(negative))
              ELSE r1
        r3 == IF lora # <<>> THEN SetKey(r2, <<"LoRA:">>, LoraText(lora)) ELSE r2
        ps == parseParameters(last_line)
        throws == /\ ~colorsDefined
                  /\ \/ lora # <<>>
                     \/ \E i \in 1..Len(ps) : ParamReadsColors(ps[i])
    IN  IF throws
        THEN [threw |-> TRUE, positive |-> positive, negative |-> negative,
              lora |-> lora, params |-> <<>>, output |-> <<>>]
        ELSE [threw |-> FALSE, positive |-> positive, negative |-> negative,
              lora |-> lora, params |-> ps, output |-> AddParams(r3, ps)]

(***************************************************************************)
(* DataView reads.  A read outside the buffer raises a RangeError; every   *)
(* operator below that reads says when that happens.  A 32-bit number v is *)
(* written as the pair <<v \div 65536, v % 65536>> of its two 16-bit       *)
(* halves, which holds every value up to 2^32 - 1.                         *)
(***************************************************************************)
Saturated == 64 * 16777216

\* The 32-bit number of a small integer.
Number(n) == <<n \div 65536, n % 65536>>

\* A 32-bit number as an operand of the arithmetic on offsets and counts.
\* Every such use compares the number with a constant below 9 or reads the
\* buffer at it, so that all numbers of 2^30 or more, which lie beyond the
\* end of every buffer, stand for one another there.
Index(v) == IF v[1] >= 16384 THEN Saturated ELSE 65536 * v[1] + v[2]

InBounds(file, offset, n) == offset >= 0 /\ offset + n <= Len(file)

getUint8(file, offset) == file[offset + 1]

getUint16(file, offset, littleEndian) ==
    IF littleEndian THEN file[offset + 1] + 256 * file[offset + 2]
    ELSE 256 * file[offset + 1] + file[offset + 2]

getUint32(file, offset, littleEndian) ==
    LET b(k) == IF littleEndian THEN file[offset + 1 + k] ELSE file[offset + 4 - k]
    IN  <<256 * b(3) + b(2), 256 * b(1) + b(0)>>

\* String.fromCharCode for a byte: a printable ASCII character is itself
\* (the backquote is written x60), every other code is a character of its
\* own, named by its code.
CharTable ==
    <<
      "x00", "x01", "x02", "x03", "x04", "x05", "x06", "x07",
      "x08", "\t", "\n", "x0B", "x0C", "\r", "x0E", "x0F",
      "x10", "x11", "x12", "x13", "x14", "x15", "x16", "x17",
      "x18", "x19", "x1A", "x1B", "x1C", "x1D", "x1E", "x1F",
      " ", "!", "\"", "#", "$", "%", "&", "'",
      "(", ")", "*", "+", ",", "-", ".", "/",
      "0", "1", "2", "3", "4", "5", "6", "7",
      "8", "9", ":", ";", "<", "=", ">", "?",
      "@", "A", "B", "C", "D", "E", "F", "G",
      "H", "I", "J", "K", "L", "M", "N", "O",
      "P", "Q", "R", "S", "T", "U", "V", "W",
      "X", "Y", "Z", "[", "\\", "]", "^", "_",
      "x60", "a", "b", "c", "d", "e", "f", "g",
      "h", "i", "j", "k", "l", "m", "n", "o",
      "p", "q", "r", "s", "t", "u", "v", "w",
      "x", "y", "z", "{", "|", "}", "~", "x7F",
      "x80", "x81", "x82", "x83", "x84", "x85", "x86", "x87",
      "x88", "x89", "x8A", "x8B", "x8C", "x8D", "x8E", "x8F",
      "x90", "x91", "x92", "x93", "x94", "x95", "x96", "x97",
      "x98", "x99", "x9A", "x9B", "x9C", "x9D", "x9E", "x9F",
      "xA0", "xA1", "xA2", "xA3", "xA4", "xA5", "xA6", "xA7",
      "xA8", "xA9", "xAA", "xAB", "xAC", "xAD", "xAE", "xAF",
      "xB0", "xB1", "xB2", "xB3", "xB4", "xB5", "xB6", "xB7",
      "xB8", "xB9", "xBA", "xBB", "xBC", "xBD", "xBE", "xBF",
      "xC0", "xC1", "xC2", "xC3", "xC4", "xC5", "xC6", "xC7",
      "xC8", "xC9", "xCA", "xCB", "xCC", "xCD", "xCE", "xCF",
      "xD0", "xD1", "xD2", "xD3", "xD4", "xD5", "xD6", "xD7",
      "xD8", "xD9", "xDA", "xDB", "xDC", "xDD", "xDE", "xDF",
      "xE0", "xE1", "xE2", "xE3", "xE4", "xE5", "xE6", "xE7",
      "xE8", "xE9", "xEA", "xEB", "xEC", "xED", "xEE", "xEF",
      "xF0", "xF1", "xF2", "xF3", "xF4", "xF5", "xF6", "xF7",
      "xF8", "xF9", "xFA", "xFB", "xFC", "xFD", "xFE", "xFF"
    >>

fromCharCode(b) == CharTable[b + 1]

(***************************************************************************)
(* readEXIFData and its local functions.  A property value is a record:   *)
(* kind "str" (a string, in s), "int" (a 32-bit number, in n),             *)
(* "undefined", or "throw" for a call that raised.                         *)
(***************************************************************************)
Undefined == [kind |-> "undefined", n |-> Number(0), s |-> <<>>]
Thrown == [kind |-> "throw", n |-> Number(0), s |-> <<>>]
StrValue(s) == [kind |-> "str", n |-> Number(0), s |-> s]
IntValue(n) == [kind |-> "int", n |-> n, s |-> <<>>]

Truthy(v) == (v.kind = "str" /\ v.s # <<>>) \/ (v.kind = "int" /\ v.n # Number(0))

getStringFromDB(buffer, start, length) ==
    IF length <= 0 THEN StrValue(<<>>)
    ELSE IF ~InBounds(buffer, start, length) THEN Thrown
    ELSE StrValue([k \in 1..length |-> fromCharCode(buffer[start + k])])

readTagValue(file, entryOffset, tiffStart, bigEnd) ==
    IF ~(/\ InBounds(file, entryOffset + 2, 2)
         /\ InBounds(file, entryOffset + 4, 4)
         /\ InBounds(file, entryOffset + 8, 4))
    THEN Thrown
    ELSE LET type == getUint16(file, entryOffset + 2, ~bigEnd)
             numValues == Index(getUint32(file, entryOffset + 4, ~bigEnd))
             valueOffset == Index(getUint32(file, entryOffset + 8, ~bigEnd)) + tiffStart
             offset == IF numValues > 4 THEN valueOffset ELSE entryOffset + 8
         IN  IF type = 7 THEN getStringFromDB(file, offset + 7, numValues - 8)
             ELSE IF type = 4 /\ numValues = 1
                  THEN IntValue(getUint32(file, entryOffset + 8, ~bigEnd))
             ELSE Undefined

\* strings[id]: the tag table's name for a tag id; an id the table does not
\* hold gives undefined, which as a property key is the string "undefined".
TagName(strings, id) ==
    IF \E t \in strings : t.id = id
    THEN (CHOOSE t \in strings : t.id = id).name
    ELSE "undefined"

TiffTags == {[id |-> 34665, name |-> "ExifIFDPointer"]}
ExifTags == {[id |-> 37510, name |-> "UserComment"]}

\* The loop of readTags from entry i on: the tags object as a list of
\* properties in insertion order, and whether a read raised.
RECURSIVE ReadEntries(_, _, _, _, _, _, _, _)
ReadEntries(file, tiffStart, dirStart, strings, bigEnd, entries, i, tags) ==
    IF i >= entries THEN [threw |-> FALSE, tags |-> tags]
    ELSE LET entryOffset == dirStart + i * 12 + 2
         IN  IF ~InBounds(file, entryOffset, 2) THEN [threw |-> TRUE, tags |-> tags]
             ELSE LET tag == TagName(strings, getUint16(file, entryOffset, ~bigEnd))
                      v == readTagValue(file, entryOffset, tiffStart, bigEnd)
                  IN  IF v.kind = "throw" THEN [threw |-> TRUE, tags |-> tags]
                      ELSE ReadEntries(file, tiffStart, dirStart, strings, bigEnd,
                                       entries, i + 1, SetKey(tags, tag, v))

readTags(file, tiffStart, dirStart, strings, bigEnd) ==
    IF ~InBounds(file, dirStart, 2) THEN [threw |-> TRUE, tags |-> <<>>]
    ELSE ReadEntries(file, tiffStart, dirStart, strings, bigEnd,
                     getUint16(file, dirStart, ~bigEnd), 0, <<>>)

HasKey(obj, k) == \E i \in 1..Len(obj) : obj[i].key = k

\* obj[k]: undefined when the object has no such property.
Get(obj, k) ==
    IF HasKey(obj, k) THEN obj[CHOOSE i \in 1..Len(obj) : obj[i].key = k].value
    ELSE Undefined

(***************************************************************************)
(* Offsets that are strings.  A type-7 ExifIFDPointer decodes to a string, *)
(* and tiffOffset + tiff.ExifIFDPointer then concatenates: readTags reads  *)
(* the Exif directory at offsets that are strings, every further + on them *)
(* concatenates again, and every DataView read converts its offset with    *)
(* ToIndex.                                                                *)
(***************************************************************************)
\* String(n) for an integer n >= 0.
RECURSIVE NumberToString(_)
NumberToString(n) ==
    IF n < 10 THEN <<fromCharCode(48 + n)>>
    ELSE NumberToString(n \div 10) \o <<fromCharCode(48 + (n % 10))>>

\* The value of a digit of a numeric literal, 16 for any other character.
HexValue(c) ==
    IF c \in Digits THEN CHOOSE d \in 0..9 : fromCharCode(48 + d) = c
    ELSE CASE c \in {"a", "A"} -> 10 [] c \in {"b", "B"} -> 11 [] c \in {"c", "C"} -> 12
           [] c \in {"d", "D"} -> 13 [] c \in {"e", "E"} -> 14 [] c \in {"f", "F"} -> 15
           [] OTHER -> 16

\* How many characters of the set `chars` s starts with.
RECURSIVE Span(_, _)
Span(s, chars) == IF s # <<>> /\ Head(s) \in chars THEN 1 + Span(Tail(s), chars) ELSE 0

\* The number a run of digits of the given radix writes, from `acc` on: 0
\* (for NaN) when a character is no such digit, Saturated once the number
\* is 2^30 or more.
RECURSIVE RadixValue(_, _, _)
RadixValue(ds, radix, acc) ==
    IF ds = <<>> THEN acc
    ELSE IF HexValue(Head(ds)) >= radix THEN 0
    ELSE RadixValue(Tail(ds), radix,
                    IF acc >= Saturated \div radix THEN Saturated
                    ELSE acc * radix + HexValue(Head(ds)))

\* Long division of the decimal number ds (a string of digits) by 2^a,
\* a <= 9: digit i of the quotient comes from the remainder of the digits
\* before it, which is that of the a digits before it, 10^a being a
\* multiple of 2^a.
Divided(ds, a) ==
    <<>> \o [i \in 1..Len(ds) |->
                fromCharCode(48 +
                    (10 * (RadixValue(SubSeq(ds, IF i > a THEN i - a ELSE 1, i - 1), 10, 0)
                              % (2 ^ a))
                        + HexValue(ds[i])) \div (2 ^ a))]

\* ds halved n times; no halving leaves a remainder.
RECURSIVE Halved(_, _)
Halved(ds, n) ==
    IF n = 0 THEN ds
    ELSE Halved(Divided(ds, IF n > 9 THEN 9 ELSE n), IF n > 9 THEN n - 9 ELSE 0)

\* Whether the double nearest to n + 0.frac is n + 1.  `gap` is the digits
\* after the point of half the distance from n + 1 to the double below it
\* (a power 2^-j, which has j digits): the number rounds to n + 1 when
\* 1 - 0.frac is at most that, a tie going to n + 1, whose significand is
\* even.  Digits of frac after the j-th do not change the comparison.
RoundsUp(frac, gap) ==
    LET short(i) == 9 - (IF i <= Len(frac) THEN HexValue(frac[i]) ELSE 0)
    IN  \E i \in 1..Len(gap) :
            /\ short(i) < HexValue(gap[i])
            /\ \A h \in 1..(i - 1) : short(h) = HexValue(gap[h])

\* ToNumber and truncation for the number whose digits are m (no leading
\* 0) with the decimal point after the first p of them: the literal is
\* rounded to the nearest double, which is then truncated.  Below n + 1
\* the doubles lie 2^(k-52) apart, with 2^k <= n + 1 < 2^(k+1), and
\* 2^(k-53) apart when n + 1 is 2^k.
IntegerPart(m, p) ==
    LET Gap(j) == Tail(Halved(<<"1">> \o [h \in 1..j |-> "0"], j))
        Rounded(n, k) ==
            IF ~RoundsUp(SubSeq(m, p + 1, Len(m)),
                         Gap(IF n + 1 = 2 ^ k THEN 54 - k ELSE 53 - k))
            THEN n
            ELSE IF n + 1 >= 1000000000 THEN Saturated
            ELSE n + 1
        Truncated(n) == Rounded(n, CHOOSE b \in 0..30 : (n + 1) \div (2 ^ b) = 1)
    IN  IF m = <<>> \/ p < 0 THEN 0
        ELSE IF p > 9 THEN Saturated
        ELSE Truncated(RadixValue(IF p <= Len(m) THEN SubSeq(m, 1, p)
                                  ELSE m \o [h \in 1..(p - Len(m)) |-> "0"],
                                  10, 0))

\* A decimal literal from its exponent on: mantissa digits m with the point
\* after the first i, exponent e with its sign.  An exponent of 10^6 or
\* more stands for 10^6.
WithExponent(m, i, e) ==
    LET signed == e # <<>> /\ Head(e) \in {"+", "-"}
        ds == IF signed THEN Tail(e) ELSE e
        Exponent(z) == IF Len(ds) - z > 6 THEN 1000000
                       ELSE RadixValue(SubSeq(ds, z + 1, Len(ds)), 10, 0)
        Scaled(z, x) == IntegerPart(SubSeq(m, z + 1, Len(m)),
                                    i - z + (IF signed /\ Head(e) = "-" THEN 0 - x ELSE x))
    IN  IF ds = <<>> \/ Span(ds, Digits) # Len(ds) THEN 0
        ELSE Scaled(Span(m, {"0"}), Exponent(Span(ds, {"0"})))

\* A decimal literal u with i integer digits and f fraction digits, the
\* latter after position d.
WithFraction(u, i, d, f) ==
    IF i + f = 0 THEN 0
    ELSE IF d + f < Len(u) /\ u[d + f + 1] \notin {"e", "E"} THEN 0
    ELSE WithExponent(SubSeq(u, 1, i) \o SubSeq(u, d + 1, d + f), i,
                      IF d + f = Len(u) THEN <<"0">> ELSE SubSeq(u, d + f + 2, Len(u)))

\* The integer part of the unsigned numeric literal u, 0 when u is none.
UnsignedLiteral(u) ==
    LET Decimal(i, point) ==
            WithFraction(u, i, IF point THEN i + 1 ELSE i,
                         IF point THEN Span(SubSeq(u, i + 2, Len(u)), Digits) ELSE 0)
        Integer(i) == Decimal(i, i < Len(u) /\ u[i + 1] = ".")
    IN  IF u = <<"I", "n", "f", "i", "n", "i", "t", "y">> THEN Saturated
        ELSE Integer(Span(u, Digits))

\* ToIndex of a string, as a DataView read applies it to its offset: the
\* string converted to a number and truncated, 0 when it is not a numeric
\* literal (NaN).  Saturated stands for every index that raises a
\* RangeError whatever the buffer: a negative one, or one of 10^9 or more.
ToIndex(str) ==
    LET Signed(negative, v) == IF negative /\ v # 0 THEN Saturated ELSE v
        Literal(t) ==
            IF t = <<>> THEN 0
            ELSE IF Len(t) > 2 /\ t[1] = "0" /\ t[2] \in {"x", "X", "o", "O", "b", "B"}
            THEN RadixValue(SubSeq(t, 3, Len(t)),
                            CASE t[2] \in {"x", "X"} -> 16 [] t[2] \in {"o", "O"} -> 8
                              [] OTHER -> 2,
                            0)
            ELSE Signed(Head(t) = "-",
                        UnsignedLiteral(IF Head(t) \in {"+", "-"} THEN Tail(t) ELSE t))
    IN  Literal(Trim(str))

\* readTagValue with entryOffset a string, given the indices its reads
\* convert to: of entryOffset+2, entryOffset+4, entryOffset+8 and
\* entryOffset+8+7.  With numValues <= 4 the loop of getStringFromDB runs
\* from the string entryOffset+8+7 to that string followed by the negative
\* length: the first comparison is one of strings and holds, one byte is
\* read, n++ makes n a number, and the next comparison, with a string that
\* is no number, fails.
readTagValueAt(file, typeAt, countAt, fieldAt, inlineAt, tiffStart, bigEnd) ==
    IF ~(/\ InBounds(file, typeAt, 2)
         /\ InBounds(file, countAt, 4)
         /\ InBounds(file, fieldAt, 4))
    THEN Thrown
    ELSE LET type == getUint16(file, typeAt, ~bigEnd)
             numValues == Index(getUint32(file, countAt, ~bigEnd))
             valueOffset == Index(getUint32(file, fieldAt, ~bigEnd)) + tiffStart
         IN  IF type = 7 /\ numValues > 4
             THEN getStringFromDB(file, valueOffset + 7, numValues - 8)
             ELSE IF type = 7
             THEN (IF InBounds(file, inlineAt, 1)
                   THEN StrValue(<<fromCharCode(getUint8(file, inlineAt))>>)
                   ELSE Thrown)
             ELSE IF type = 4 /\ numValues = 1
                  THEN IntValue(getUint32(file, fieldAt, ~bigEnd))
             ELSE Undefined

\* entryOffset = dirStart + i*12 + 2 with dirStart a string.
EntryOffset(dirStart, i) == dirStart \o NumberToString(i * 12) \o <<"2">>

\* Iteration i of the loop of readTags with dirStart a string: the value
\* readTagValue returns, its reads being at entryOffset followed by "2",
\* "4", "8" and "87".
EntryValue(file, tiffStart, dirStart, bigEnd, i) ==
    LET Read(at) == readTagValueAt(file, at[1], at[2], at[3], at[4], tiffStart, bigEnd)
    IN  Read(<<>> \o [h \in 1..4 |->
                        ToIndex(EntryOffset(dirStart, i)
                                    \o << <<"2">>, <<"4">>, <<"8">>, <<"8", "7">> >>[h])])

\* The tags object the loop leaves after `entries` iterations none of which
\* raised: a property for each key assigned, in the order of the first
\* assignments, each with the value assigned last.
\* `at` gives the index the read of the tag id of each iteration converts
\* to, `value` the value readTagValue returns in it.
EntryTags(file, strings, bigEnd, entries, at, value) ==
    LET Key(i) == TagName(strings, getUint16(file, at[i], ~bigEnd))
        keys == {Key(i) : i \in 0..(entries - 1)}
        First(k) == CHOOSE i \in 0..(entries - 1) :
                        Key(i) = k /\ \A j \in 0..(i - 1) : Key(j) # k
        Last(k) == CHOOSE i \in 0..(entries - 1) :
                       Key(i) = k /\ \A j \in (i + 1)..(entries - 1) : Key(j) # k
        Place(k) == 1 + Cardinality({h \in keys : First(h) < First(k)})
    IN  [r \in 1..Cardinality(keys) |->
            [key |-> CHOOSE k \in keys : Place(k) = r,
             value |-> value[Last(CHOOSE k \in keys : Place(k) = r)]]]

\* readTags with dirStart a string.
readTagsAt(file, tiffStart, dirStart, strings, bigEnd, entriesAt) ==
    LET Loop(entries, at, value) ==
            IF \E i \in 0..(entries - 1) :
                    ~InBounds(file, at[i], 2) \/ value[i].kind = "throw"
            THEN [threw |-> TRUE, tags |-> <<>>]
            ELSE [threw |-> FALSE,
                  tags |-> EntryTags(file, strings, bigEnd, entries, at, value)]
        Entries(entries) ==
            Loop(entries,
                 [i \in 0..(entries - 1) |-> ToIndex(EntryOffset(dirStart, i))],
                 [i \in 0..(entries - 1) |->
                      EntryValue(file, tiffStart, dirStart, bigEnd, i)])
    IN  IF ~InBounds(file, entriesAt, 2) THEN [threw |-> TRUE, tags |-> <<>>]
        ELSE Entries(getUint16(file, entriesAt, ~bigEnd))

(***************************************************************************)
(* parceMetadata.  Its argument is the chunk map of the PNG library or the *)
(* tags object of readEXIFData: `parameters` is a property value (kind     *)
(* "absent" when the object has no such property), `prompt` is "absent",   *)
(* "graph" (a prompt the ComfyUI parser accepts) or "broken" (one it       *)
(* throws on); defined = FALSE is the library returning undefined.         *)
(***************************************************************************)
Absent == [kind |-> "absent", n |-> Number(0), s |-> <<>>]

ErrorKey == <<"Error">>

ErrorReport(message) == <<[key |-> ErrorKey, value |-> <<message>>]>>

NoSections == "No parameters or prompt sections in metadata"

\* new ComfyUI(prompt).run() and its output: the parser is not among the
\* sources; it either throws or leaves a report of its own.
ComfyRun(prompt) ==
    IF prompt = "graph"
    THEN [threw |-> FALSE, output |-> <<[key |-> <<"ComfyUI">>, value |-> <<"graph">>]>>]
    ELSE [threw |-> TRUE, output |-> <<>>]

\* new ForgeUI(parameters).run(): a number has no split method, so run()
\* throws on it at once.
ForgeOn(parameters, colorsDefined) ==
    IF parameters.kind = "str" THEN ForgeRun(parameters.s, colorsDefined)
    ELSE [ForgeConstructed EXCEPT !.threw = TRUE]

\* The second try block and the final test, entered with `result`.
MutPromptSection(result, m, colorsDefined) ==
    LET useComfy == m.defined /\ m.prompt # "absent"
        c == ComfyRun(m.prompt)
    IN  IF useComfy /\ ~c.threw THEN result \o c.output
        ELSE IF useComfy THEN ErrorReport("Error in prompt section")
        ELSE IF Len(result) = 0 THEN ErrorReport(NoSections)
        ELSE result

PromptSection(result, m, colorsDefined) ==
    LET useComfy == m.defined /\ m.prompt # "absent"
        c == ComfyRun(m.prompt)
        r2 == IF useComfy /\ c.threw
              THEN SetKey(result, ErrorKey, <<"Error in prompt section">>)
              ELSE result
    IN  IF useComfy /\ ~c.threw THEN c.output
        ELSE IF Len(r2) = 0 THEN SetKey(r2, ErrorKey, <<NoSections>>)
        ELSE r2

\* parceMetadata(metadata): the returned report, with which parser ran
\* and which threw.
parceMetadata(m, colorsDefined) ==
    LET useForge == m.defined /\ Truthy(m.parameters)
        f == ForgeOn(m.parameters, colorsDefined)
        useComfy == m.defined /\ m.prompt # "absent"
    IN  IF useForge /\ ~f.threw
        THEN [result |-> f.output, forgeRan |-> TRUE, forgeThrew |-> FALSE,
              comfyRan |-> FALSE, comfyThrew |-> FALSE]
        ELSE [result |-> PromptSection(
                             IF useForge THEN ErrorReport("Error in parameters section")
                             ELSE <<>>,
                             m, colorsDefined),
              forgeRan |-> useForge, forgeThrew |-> useForge,
              comfyRan |-> useComfy, comfyThrew |-> useComfy /\ ComfyRun(m.prompt).threw]

NotParced ==
    [result |-> <<>>, forgeRan |-> FALSE, forgeThrew |-> FALSE,
     comfyRan |-> FALSE, comfyThrew |-> FALSE]

NoTags == [defined |-> TRUE, parameters |-> Absent, prompt |-> "absent"]

(***************************************************************************)
(* readEXIFData and readEXIFMetadata.  An outcome is "report" (the report  *)
(* of parceMetadata), "false", "undefined" (the scan loop ran off the end),*)
(* or "throw" (a RangeError left the function).                            *)
(***************************************************************************)
ExifOutcome(kind) ==
    [kind |-> kind, tiff |-> <<>>, exifData |-> <<>>, tags |-> NoTags, parce |-> NotParced]

ExifWord == <<"E", "x", "i", "f">>

\* The for-in loop over exifData: `parameters` ends as the value of the
\* property enumerated last, and is not set when there is none.
TagsOf(exifData) ==
    [NoTags EXCEPT !.parameters =
        IF exifData = <<>> THEN Absent ELSE exifData[Len(exifData)].value]

\* readEXIFData from the second readTags call on.
ExifDirectory(tiff, exifData, colorsDefined) ==
    IF exifData.threw
    THEN [ExifOutcome("throw") EXCEPT !.tiff = tiff]
    ELSE [kind |-> "report", tiff |-> tiff,
          exifData |-> exifData.tags, tags |-> TagsOf(exifData.tags),
          parce |-> parceMetadata(TagsOf(exifData.tags), colorsDefined)]

\* readEXIFData from the two readTags calls on.  tiffOffset +
\* tiff.ExifIFDPointer is a sum when the pointer is a number and a
\* concatenation when it is a string.
ReadDirectories(file, tiffOffset, firstIFDOffset, bigEnd, colorsDefined) ==
    LET tiff == readTags(file, tiffOffset, tiffOffset + firstIFDOffset, TiffTags, bigEnd)
        pointer == Get(tiff.tags, "ExifIFDPointer")
    IN  IF tiff.threw THEN ExifOutcome("throw")
        ELSE IF ~Truthy(pointer)
        THEN [ExifOutcome("report") EXCEPT !.tiff = tiff.tags,
                                           !.parce = parceMetadata(NoTags, colorsDefined)]
        ELSE IF pointer.kind = "str"
        THEN ExifDirectory(tiff.tags,
                           readTagsAt(file, tiffOffset,
                                      NumberToString(tiffOffset) \o pointer.s,
                                      ExifTags, bigEnd,
                                      ToIndex(NumberToString(tiffOffset) \o pointer.s)),
                           colorsDefined)
        ELSE ExifDirectory(tiff.tags,
                           readTags(file, tiffOffset, tiffOffset + Index(pointer.n),
                                    ExifTags, bigEnd),
                           colorsDefined)

readEXIFData(file, start, colorsDefined) ==
    LET word == getStringFromDB(file, start, 4)
        tiffOffset == start + 6
    IN  IF word.kind = "throw" THEN ExifOutcome("throw")
        ELSE IF word.s # ExifWord THEN ExifOutcome("false")
        ELSE IF ~InBounds(file, tiffOffset, 2) THEN ExifOutcome("throw")
        ELSE IF getUint16(file, tiffOffset, FALSE) \notin {18761, 19789}
        THEN ExifOutcome("false")
        ELSE LET bigEnd == getUint16(file, tiffOffset, FALSE) = 19789
             IN  IF ~InBounds(file, tiffOffset + 2, 2) THEN ExifOutcome("throw")
                 ELSE IF getUint16(file, tiffOffset + 2, ~bigEnd) # 42
                 THEN ExifOutcome("false")
                 ELSE IF ~InBounds(file, tiffOffset + 4, 4) THEN ExifOutcome("throw")
                 ELSE IF Index(getUint32(file, tiffOffset + 4, ~bigEnd)) < 8
                 THEN ExifOutcome("false")
                 ELSE ReadDirectories(file, tiffOffset,
                                      Index(getUint32(file, tiffOffset + 4, ~bigEnd)),
                                      bigEnd, colorsDefined)

\* The while loop of readEXIFMetadata, entered with `offset`.
RECURSIVE ScanMarkers(_, _, _)
ScanMarkers(file, offset, colorsDefined) ==
    IF ~(offset < Len(file)) THEN ExifOutcome("undefined")
    ELSE IF getUint8(file, offset) # 255 THEN ExifOutcome("false")
    ELSE IF ~InBounds(file, offset + 1, 1) THEN ExifOutcome("throw")
    ELSE IF ~InBounds(file, offset + 2, 2) THEN ExifOutcome("throw")
    ELSE IF getUint8(file, offset + 1) = 225
    THEN readEXIFData(file, offset + 4, colorsDefined)
    ELSE ScanMarkers(file, offset + 2 + getUint16(file, offset + 2, FALSE), colorsDefined)

readEXIFMetadata(file, colorsDefined) ==
    IF ~InBounds(file, 0, 1) THEN ExifOutcome("throw")
    ELSE IF getUint8(file, 0) # 255 THEN ExifOutcome("false")
    ELSE IF ~InBounds(file, 1, 1) THEN ExifOutcome("throw")
    ELSE IF getUint8(file, 1) # 216 THEN ExifOutcome("false")
    ELSE ScanMarkers(file, 2, colorsDefined)

(***************************************************************************)
(* The values the variables of an operation hold while another operation  *)
(* is the one under study.                                                 *)
(***************************************************************************)
ParamsIdle == text = <<>> /\ parts = <<>> /\ params = <<>>
ForgeIdle == raw = <<>> /\ forge = ForgeConstructed
ParceIdle == metadata = NoTags /\ parce = NotParced
ExifIdle == jpeg = <<>> /\ exif = ExifOutcome("undefined") /\ scanOffset = 0
TagIdle ==
    /\ tagIn = [file |-> <<>>, entryOffset |-> 0, tiffStart |-> 0, bigEnd |-> FALSE]
    /\ tagOut = Undefined

UploaderIdle ==
    /\ currentObjectURL = 0
    /\ created = 0
    /\ revoked = {}
    /\ calls = <<>>
    /\ container = [img |-> 0, report |-> <<>>]
    /\ toasts = <<>>
    /\ microtasks = <<>>

PureIdle == ParamsIdle /\ ForgeIdle /\ ParceIdle /\ ExifIdle /\ TagIdle

(***************************************************************************)
(* The inputs the operations are run on: annotations put together from at  *)
(* most a few pieces, and JPEG files built byte by byte.                   *)
(***************************************************************************)
SpanPiece == <<"<", "l", ":", "f", ":", "1", ">">>

RawPieces ==
    {<<"a">>, <<" ">>, <<"\n">>, <<"<">>, <<">">>, <<":">>, <<",">>, <<"7">>,
     Separator, SpanPiece}

RECURSIVE Flatten(_)
Flatten(ss) == IF ss = <<>> THEN <<>> ELSE Head(ss) \o Flatten(Tail(ss))

Annotations == {Flatten(ps) : ps \in StringsUpTo(RawPieces, MaxRawTokens)}

Bytes16(n, le) ==
    IF le THEN <<n % 256, n \div 256>> ELSE <<n \div 256, n % 256>>

Bytes32(n, le) ==
    IF le THEN <<n % 256, (n \div 256) % 256, (n \div 65536) % 256, n \div 16777216>>
    ELSE <<n \div 16777216, (n \div 65536) % 256, (n \div 256) % 256, n % 256>>

IfdEntry(tag, type, count, value, le) ==
    Bytes16(tag, le) \o Bytes16(type, le) \o Bytes32(count, le) \o Bytes32(value, le)

Zeros(n) == [k \in 1..n |-> 0]

Payload(n) == [k \in 1..n |-> 64 + k]

CommentPrefix == <<85, 78, 73, 67, 79, 68, 69, 0>>

CommentTexts == {<<97, 98>>, <<83, 58, 55>>}

OtherBlob == CommentPrefix \o <<122, 122, 122>>

EntryKinds == {"UserComment", "ascii", "long", "blob"}

ExifEntry(kind, commentAt, commentLen, otherAt, le) ==
    CASE kind = "UserComment" -> IfdEntry(37510, 7, commentLen, commentAt, le)
      [] kind = "ascii" -> IfdEntry(36864, 2, 4, 0, le)
      [] kind = "long" -> IfdEntry(40962, 4, 1, 5, le)
      [] kind = "blob" -> IfdEntry(37500, 7, Len(OtherBlob), otherAt, le)

RECURSIVE ExifEntries(_, _, _, _, _)
ExifEntries(kinds, commentAt, commentLen, otherAt, le) ==
    IF kinds = <<>> THEN <<>>
    ELSE ExifEntry(Head(kinds), commentAt, commentLen, otherAt, le)
            \o ExifEntries(Tail(kinds), commentAt, commentLen, otherAt, le)

ExifJpeg(le, kinds, commentText) ==
    LET comment == CommentPrefix \o commentText
        commentAt == 26 + 2 + 12 * Len(kinds) + 4
        otherAt == commentAt + Len(comment)
        tiff == (IF le THEN <<73, 73>> ELSE <<77, 77>>) \o Bytes16(42, le) \o Bytes32(8, le)
                  \o Bytes16(1, le) \o IfdEntry(34665, 4, 1, 26, le) \o Bytes32(0, le)
                  \o Bytes16(Len(kinds), le)
                  \o ExifEntries(kinds, commentAt, Len(comment), otherAt, le)
                  \o Bytes32(0, le) \o comment \o OtherBlob
        payload == <<69, 120, 105, 102, 0, 0>> \o tiff
    IN  <<255, 216, 255, 224, 0, 2, 255, 225>> \o Bytes16(Len(payload) + 2, FALSE) \o payload

BaseJpeg == ExifJpeg(TRUE, <<"UserComment">>, <<97, 98>>)

BuiltJpegs ==
    {ExifJpeg(le, kinds, t) :
        le \in BOOLEAN, kinds \in StringsUpTo(EntryKinds, MaxEntries), t \in CommentTexts}

TruncatedJpegs == {SubSeq(BaseJpeg, 1, n) : n \in 0..Len(BaseJpeg)}

CorruptedJpegs ==
    {[BaseJpeg EXCEPT ![i] = v] : i \in 1..Len(BaseJpeg), v \in {0, 255}}

\* A file whose root directory holds a type-7 ExifIFDPointer, which decodes
\* to the string of the bytes `pointer`: an APP0 segment of content app0,
\* the APP1 segment, and the bytes `tail` after it.  tiffOffset is
\* 16 + Len(app0).
PointerJpeg(le, app0, pointer, tail) ==
    LET tiff == (IF le THEN <<73, 73>> ELSE <<77, 77>>) \o Bytes16(42, le) \o Bytes32(8, le)
                  \o Bytes16(1, le) \o IfdEntry(34665, 7, 8 + Len(pointer), 26, le)
                  \o Bytes32(0, le) \o Zeros(7) \o pointer
        payload == <<69, 120, 105, 102, 0, 0>> \o tiff
    IN  <<255, 216, 255, 224>> \o Bytes16(Len(app0) + 2, FALSE) \o app0
            \o <<255, 225>> \o Bytes16(Len(payload) + 2, FALSE) \o payload \o tail

\* Pointers "26" (a directory offset "1626": beyond the file), "0" and "0."
\* (offsets "160" and "160.": the 16-bit number at the end of the tail),
\* "0." followed by twenty 9s (an offset that rounds to 161),
\* and, after a 24-byte APP0 segment, "e-1" (offset "40e-1": the length
\* field of the APP0 segment, and entries at "40e-102", ...: the start of
\* the file), and two bytes 0 (offset "16" followed by two characters of
\* code 0, which is no number: the start of the file).
StringPointerJpegs ==
    {PointerJpeg(le, <<>>, <<50, 54>>, <<>>) : le \in BOOLEAN}
        \cup {PointerJpeg(le, <<>>, p, Zeros(111 - Len(p)) \o Bytes16(v, le) \o Zeros(2)) :
                    le \in BOOLEAN,
                    p \in {<<48>>, <<48, 46>>, <<48, 46>> \o [h \in 1..20 |-> 57]},
                    v \in {0, 1, 4, 7}}
        \cup {PointerJpeg(FALSE, Zeros(24), <<101, 45, 49>>, <<>>),
              PointerJpeg(TRUE, <<>>, <<0, 0>>, <<>>)}

JpegInputs == BuiltJpegs \cup TruncatedJpegs \cup CorruptedJpegs \cup StringPointerJpegs

(***************************************************************************)
(* The uploader.  A file is its MIME type, its bytes (read on the JPEG     *)
(* path) and what the PNG library makes of it (read on the PNG path): the  *)
(* library returns a chunk map, returns undefined or throws.               *)
(***************************************************************************)
PngFile(lib, chunks) == [type |-> "image/png", bytes |-> <<>>, lib |-> lib, chunks |-> chunks]
JpegFile(bytes) == [type |-> "image/jpeg", bytes |-> bytes, lib |-> "none", chunks |-> NoTags]

PngFiles ==
    {PngFile("throws", NoTags),
     PngFile("returns", NoTags),
     PngFile("returns", [NoTags EXCEPT !.defined = FALSE]),
     PngFile("returns", [NoTags EXCEPT !.parameters = StrValue(<<"a">>)]),
     PngFile("returns", [NoTags EXCEPT !.parameters = StrValue(SpanPiece), !.prompt = "graph"]),
     PngFile("returns", [NoTags EXCEPT !.prompt = "broken"])}

JpegFiles ==
    {JpegFile(<<>>),
     JpegFile(<<0, 0>>),
     JpegFile(<<255, 216>>),
     JpegFile(SubSeq(BaseJpeg, 1, 40)),
     JpegFile(BaseJpeg)}

OtherFiles == {[type |-> "text/plain", bytes |-> <<>>, lib |-> "none", chunks |-> NoTags]}

\* What a reader did ("report", "false", "undefined" or "throw") and, for a
\* report, what parceMetadata made of it.
ExifRead(e) == [kind |-> e.kind, parce |-> e.parce]

readPNGMetadata(file, colorsDefined) ==
    IF file.lib = "throws" THEN [kind |-> "throw", parce |-> NotParced]
    ELSE [kind |-> "report", parce |-> parceMetadata(file.chunks, colorsDefined)]

ReaderOutcome(file, colorsDefined) ==
    IF file.type = "image/png" THEN readPNGMetadata(file, colorsDefined)
    ELSE ExifRead(readEXIFMetadata(file.bytes, colorsDefined))

\* readMetadata after its reader: the report it returns, whether its catch
\* block ran (and raised the error toast), and what the reader did.
MetadataOf(read) ==
    [metadata |-> IF read.kind = "report" THEN read.parce.result ELSE <<>>,
     caught |-> read.kind = "throw",
     reader |-> read.kind,
     parsed |-> /\ read.kind = "report"
                /\ \/ read.parce.forgeRan /\ ~read.parce.forgeThrew
                   \/ read.parce.comfyRan /\ ~read.parce.comfyThrew]

readMetadata(file, colorsDefined) == MetadataOf(ReaderOutcome(file, colorsDefined))

\* createMetadataContainer raises a TypeError when it has an entry to
\* format and options.colors is undefined.
ContainerThrows(report, colorsDefined) == report # <<>> /\ ~colorsDefined

Rejections == Cardinality({i \in 1..Len(toasts) : toasts[i] = "Unsupported file format"})

MutClearPreviousImage(url, released) == released

\* clearPreviousImage: the set of revoked URLs after it; currentObjectURL is
\* null after it and until displayImage assigns the new URL.
clearPreviousImage(url, released) ==
    IF url # 0 THEN released \cup {url} ELSE released

\* handleFileSelect(e) for a file list whose first file is `file` (with no
\* file it returns at once): for an accepted file clearPreviousImage, then
\* displayImage up to its await.  An event handler starts only when no
\* microtask is waiting.
HandleFileSelect(file) ==
    /\ pc = "run"
    /\ microtasks = <<>>
    /\ Len(calls) + Rejections < MaxSelects
    /\ IF file.type \in {"image/png", "image/jpeg"}
       THEN /\ revoked' = clearPreviousImage(currentObjectURL, revoked)
            /\ created' = created + 1
            /\ currentObjectURL' = created + 1
            /\ calls' = Append(calls, [file |-> file, url |-> created + 1,
                                       state |-> "reading", metadata |-> <<>>,
                                       caught |-> FALSE, reader |-> "none",
                                       parsed |-> FALSE])
            /\ UNCHANGED <<container, toasts>>
       ELSE /\ toasts' = Append(toasts, "Unsupported file format")
            /\ UNCHANGED <<currentObjectURL, created, revoked, calls, container>>
    /\ UNCHANGED <<pc, colors, pureVars, microtasks>>

\* destroy(): clearPreviousImage, then a ReferenceError leaves it at the
\* first removeEventListener (preventDefault is a local of
\* setupDragAndDrop), so the listeners and the container stay as they are.
\* With no current URL it changes nothing.  Like a selection it is a call
\* from outside, made when no microtask is left.
Destroy ==
    /\ pc = "run"
    /\ microtasks = <<>>
    /\ currentObjectURL # 0
    /\ revoked' = clearPreviousImage(currentObjectURL, revoked)
    /\ currentObjectURL' = 0
    /\ UNCHANGED <<pc, colors, pureVars, created, calls, container, toasts, microtasks>>

\* The file read of call i ends (the promise of file.arrayBuffer() is
\* resolved, or the FileReader's load handler has run and settled its
\* promise): the continuation that waits for it becomes a microtask.  The
\* host does this in a task of its own, for one read or for several, and
\* the microtasks run when the task is over.
ResolveRead(i) ==
    /\ pc = "run"
    /\ calls[i].state = "reading"
    /\ \A k \in 1..Len(microtasks) : calls[microtasks[k]].state = "loaded"
    /\ calls' = [calls EXCEPT ![i].state = "loaded"]
    /\ microtasks' = Append(microtasks, i)
    /\ UNCHANGED <<pc, colors, pureVars, currentObjectURL, created, revoked, container,
                   toasts>>

\* The first microtask, when it is the reader of a call: readEXIFMetadata
\* from its await to its end (for a PNG, the settling of readPNGMetadata's
\* promise); the continuation of readMetadata is queued.
ReaderOf(i, read) ==
    calls' = [calls EXCEPT ![i] = [@ EXCEPT !.state = "read", !.reader = read.kind]]

ReadFile ==
    /\ pc = "run"
    /\ microtasks # <<>>
    /\ calls[Head(microtasks)].state = "loaded"
    /\ ReaderOf(Head(microtasks), ReaderOutcome(calls[Head(microtasks)].file, colors))
    /\ microtasks' = Append(Tail(microtasks), Head(microtasks))
    /\ UNCHANGED <<pc, colors, pureVars, currentObjectURL, created, revoked, container,
                   toasts>>

\* The first microtask, when it is readMetadata after its await: it
\* returns the report, or its catch block shows the toast and it returns
\* baseMetadata; the continuation of displayImage is queued.
ReturnOf(i, r) ==
    /\ calls' = [calls EXCEPT ![i] =
           [@ EXCEPT !.state = "returned", !.metadata = r.metadata,
                     !.caught = r.caught, !.parsed = r.parsed]]
    /\ toasts' = toasts \o (IF r.caught THEN <<"Error in readMetadata">> ELSE <<>>)

ReturnMetadata ==
    /\ pc = "run"
    /\ microtasks # <<>>
    /\ calls[Head(microtasks)].state = "read"
    /\ ReturnOf(Head(microtasks), readMetadata(calls[Head(microtasks)].file, colors))
    /\ microtasks' = Append(Tail(microtasks), Head(microtasks))
    /\ UNCHANGED <<pc, colors, pureVars, currentObjectURL, created, revoked, container>>

\* displayImage from its await to its end, given whether
\* createMetadataContainer throws on the report.
ShowReport(i, fails) ==
    /\ calls' = [calls EXCEPT ![i].state = IF fails THEN "failed" ELSE "shown"]
    /\ toasts' = toasts \o (IF fails THEN <<"Error in displayImage">> ELSE <<>>)
    /\ container' = IF fails THEN container
                    ELSE [img |-> calls[i].url, report |-> calls[i].metadata]

\* The first microtask, when it is displayImage after its await.
DisplayReport ==
    /\ pc = "run"
    /\ microtasks # <<>>
    /\ calls[Head(microtasks)].state = "returned"
    /\ ShowReport(Head(microtasks),
                  ContainerThrows(calls[Head(microtasks)].metadata, colors))
    /\ microtasks' = Tail(microtasks)
    /\ UNCHANGED <<pc, colors, pureVars, currentObjectURL, created, revoked>>

Init ==
    /\ pc = "run"
    /\ colors \in BOOLEAN
    /\ PureIdle
    /\ UploaderIdle

Next ==
    \/ \E file \in JpegFiles : HandleFileSelect(file)
    \/ \E file \in PngFiles : HandleFileSelect(file)
    \/ \E file \in OtherFiles : HandleFileSelect(file)
    \/ Destroy
    \/ \E i \in 1..Len(calls) : ResolveRead(i)
    \/ ReadFile
    \/ ReturnMetadata
    \/ DisplayReport

Spec == Init /\ [][Next]_vars

(***************************************************************************)
(* Specification of ForgeUI.run over bounded annotations: an annotation is *)
(* a concatenation of at most MaxRawTokens pieces.                         *)
(***************************************************************************)
InitForge ==
    /\ pc = "start"
    /\ raw \in Annotations
    /\ colors \in BOOLEAN
    /\ forge = ForgeConstructed
    /\ ParamsIdle /\ ParceIdle /\ ExifIdle /\ TagIdle /\ UploaderIdle

Run ==
    /\ pc = "start"
    /\ pc' = "done"
    /\ forge' = ForgeRun(raw, colors)
    /\ UNCHANGED <<raw, colors, paramsVars, parceVars, exifVars, tagVars, uploaderVars>>

NextForge == Run

SpecForge == InitForge /\ [][NextForge]_vars

(***************************************************************************)
(* Specification of parceMetadata over bounded chunk maps and tags.        *)
(***************************************************************************)
ParameterValues ==
    {Absent, Undefined, IntValue(Number(5))}
        \cup {StrValue(Flatten(ps)) : ps \in StringsUpTo(RawPieces, MaxParceTokens)}

MetadataInputs ==
    {m \in [defined : BOOLEAN, parameters : ParameterValues,
            prompt : {"absent", "graph", "broken"}] :
        ~m.defined => (m.parameters = Absent /\ m.prompt = "absent")}

InitParce ==
    /\ pc = "start"
    /\ metadata \in MetadataInputs
    /\ colors \in BOOLEAN
    /\ parce = NotParced
    /\ ParamsIdle /\ ForgeIdle /\ ExifIdle /\ TagIdle /\ UploaderIdle

ParceMetadata ==
    /\ pc = "start"
    /\ pc' = "done"
    /\ parce' = parceMetadata(metadata, colors)
    /\ UNCHANGED <<metadata, colors, paramsVars, forgeVars, exifVars, tagVars, uploaderVars>>

NextParce == ParceMetadata

SpecParce == InitParce /\ [][NextParce]_vars

(***************************************************************************)
(* Specification of readTagValue over bounded directory entries: the file  *)
(* is tiffStart bytes, a 2-byte entry count, one 12-byte entry and a       *)
(* payload of distinct bytes.                                              *)
(***************************************************************************)
TagInputs ==
    {[file |-> Zeros(t) \o Bytes16(1, ~be) \o IfdEntry(37510, ty, n, f, ~be) \o Payload(l),
      entryOffset |-> t + 2, tiffStart |-> t, bigEnd |-> be] :
        t \in {0, 3}, ty \in {7, 4, 2}, n \in 0..MaxCount, f \in {14, 15},
        l \in 0..MaxPayload, be \in BOOLEAN}

InitTag ==
    /\ pc = "start"
    /\ tagIn \in TagInputs
    /\ tagOut = Undefined
    /\ colors = TRUE
    /\ ParamsIdle /\ ForgeIdle /\ ParceIdle /\ ExifIdle /\ UploaderIdle

ReadTagValue ==
    /\ pc = "start"
    /\ pc' = "done"
    /\ tagOut' = readTagValue(tagIn.file, tagIn.entryOffset, tagIn.tiffStart, tagIn.bigEnd)
    /\ UNCHANGED <<tagIn, colors, paramsVars, forgeVars, parceVars, exifVars, uploaderVars>>

NextTag == ReadTagValue

SpecTag == InitTag /\ [][NextTag]_vars

(***************************************************************************)
(* Specification of readEXIFMetadata over bounded JPEG files: files built  *)
(* with an empty APP0 segment, an APP1 segment whose root directory points *)
(* to an Exif directory of at most MaxEntries entries, and two value       *)
(* blobs; the prefixes of one such file; that file with one byte changed; *)
(* and files whose root pointer is a string.                               *)
(***************************************************************************)
InitExif ==
    /\ pc = "start"
    /\ jpeg \in JpegInputs
    /\ colors \in BOOLEAN
    /\ exif = ExifOutcome("undefined")
    /\ scanOffset = 0
    /\ ParamsIdle /\ ForgeIdle /\ ParceIdle /\ TagIdle /\ UploaderIdle

ReadEXIFMetadata ==
    /\ pc = "start"
    /\ pc' = "done"
    /\ exif' = readEXIFMetadata(jpeg, colors)
    /\ UNCHANGED <<jpeg, scanOffset, colors, paramsVars, forgeVars, parceVars, tagVars,
                   uploaderVars>>

NextExif == ReadEXIFMetadata

SpecExif == InitExif /\ [][NextExif]_vars

(***************************************************************************)
(* Specification of parseParameters over bounded settings lines.           *)
(***************************************************************************)
LineAlphabet == {"a", ":", ",", QUOTE, " "}

ExampleLine ==
    <<"S", "t", "e", "p", "s", ":", " ", "2", "0", ",", " ", "S", "a", "m", "p",
      "l", "e", "r", ":", " ", "\"", "E", "u", "l", "e", "r", " ", "a", ",", " ",
      "f", "a", "s", "t", "\"", ",", " ", "C", "F", "G", " ", "s", "c", "a", "l",
      "e", ":", " ", "7">>

SettingsLines == StringsUpTo(LineAlphabet, MaxLineLen) \cup {ExampleLine}

InitParams ==
    /\ pc = "start"
    /\ text \in SettingsLines
    /\ parts = <<>>
    /\ params = <<>>
    /\ colors = TRUE
    /\ ForgeIdle /\ ParceIdle /\ ExifIdle /\ TagIdle /\ UploaderIdle

ParseParameters ==
    /\ pc = "start"
    /\ pc' = "done"
    /\ parts' = SplitParts(text)
    /\ params' = ParamsOfParts(parts')
    /\ UNCHANGED <<text, colors, forgeVars, parceVars, exifVars, tagVars, uploaderVars>>

NextParams == ParseParameters

SpecParams == InitParams /\ [][NextParams]_vars

(***************************************************************************)
(* C6.                                                                     *)
(***************************************************************************)
\* The commas of t that lie outside every double-quoted span, found by
\* reading t from the left and toggling at each double quote.
RECURSIVE OutsideCommas(_, _, _)
OutsideCommas(t, i, inQuote) ==
    IF i > Len(t) THEN {}
    ELSE IF t[i] = QUOTE THEN OutsideCommas(t, i + 1, ~inQuote)
    ELSE (IF t[i] = "," /\ ~inQuote THEN {i} ELSE {})
            \cup OutsideCommas(t, i + 1, inQuote)

BalancedQuotes(t) == QuoteCount(t) % 2 = 0

HasColon(seg) == \E i \in 1..Len(seg) : seg[i] = ":"
NonBlank(seg) == \E i \in 1..Len(seg) : ~IsSpace(seg[i])
SegmentOk(seg) == HasColon(seg) /\ NonBlank(seg)

\* What the claim says entry e must be for segment seg: the key and the
\* value around the first ':', trimmed, the value without its outer pair of
\* double quotes when it has one, and as it is otherwise.
EntryMatches(e, seg) ==
    LET c == CHOOSE i \in 1..Len(seg) : seg[i] = ":" /\ \A j \in 1..(i - 1) : seg[j] # ":"
        rawValue == Trim(SubSeq(seg, c + 1, Len(seg)))
    IN  /\ e.key = Trim(SubSeq(seg, 1, c - 1))
        /\ IF Len(rawValue) >= 2 /\ rawValue[1] = QUOTE /\ rawValue[Len(rawValue)] = QUOTE
           THEN <<QUOTE>> \o e.value \o <<QUOTE>> = rawValue
           ELSE e.value = rawValue

\* C6: on a settings line with balanced double quotes parseParameters splits
\* exactly at the commas outside quoted spans, keeps the segments in order,
\* drops those that are blank or have no ':', and strips one outer pair of
\* quotes from a value; the example line yields its three entries.
C6_QuoteAwareSplit ==
    (pc = "done" /\ BalancedQuotes(text)) =>
        LET segs == CutAt(text, OutsideCommas(text, 1, FALSE))
            kept == SelectSeq(segs, SegmentOk)
        IN  /\ parts = segs
            /\ Len(params) = Len(kept)
            /\ \A i \in 1..Len(kept) : EntryMatches(params[i], kept[i])
            /\ text = ExampleLine =>
                 params = << [key |-> <<"S", "t", "e", "p", "s">>,
                              value |-> <<"2", "0">>],
                             [key |-> <<"S", "a", "m", "p", "l", "e", "r">>,
                              value |-> <<"E", "u", "l", "e", "r", " ", "a", ",",
                                          " ", "f", "a", "s", "t">>],
                             [key |-> <<"C", "F", "G", " ", "s", "c", "a", "l", "e">>,
                              value |-> <<"7">>] >>

(***************************************************************************)
(* C7 - C10: ForgeUI.run.                                                  *)
(***************************************************************************)
HasChar(s, c) == \E i \in 1..Len(s) : s[i] = c

SingleLine(r) == ~HasChar(r, "\n")

HasMarker(r) ==
    \E i \in 1..Len(r) :
        i + Len(Separator) - 1 <= Len(r) /\ SubSeq(r, i, i + Len(Separator) - 1) = Separator

\* C7: a one-line annotation is the prompt block only and yields no
\* settings entries, whatever it contains.
C7_SingleLineNoSettings ==
    (pc = "done" /\ ~forge.threw /\ SingleLine(raw)) =>
        /\ forge.params = <<>>
        /\ \A i \in 1..Len(forge.output) :
              forge.output[i].key \in
                  {<<"Prompt:<br>">>, <<"Negative Prompt:<br>">>, <<"LoRA:">>}

\* C8 as stated: without the marker the negative prompt is empty and the
\* positive prompt is the trimmed input.
C8_PositiveIsTrimmedInput ==
    (pc = "done" /\ ~HasMarker(raw)) =>
        /\ forge.negative = <<>>
        /\ forge.positive = Trim(raw)

\* The prompt block, read off the annotation directly: everything before
\* its last line break, or all of it when it has none.
PromptBlock(r) ==
    IF SingleLine(r) THEN r
    ELSE LET last == CHOOSE i \in 1..Len(r) :
                         r[i] = "\n" /\ \A j \in (i + 1)..Len(r) : r[j] # "\n"
         IN  SubSeq(r, 1, last - 1)

NothingToClean(s) ==
    /\ ~HasChar(s, "<")
    /\ Len(s) >= 2 => <<s[1], s[Len(s)]>> \notin WrapPairs

\* C8 as amended: without the marker the negative prompt is empty and the
\* positive prompt is the trimmed prompt block (the annotation without its
\* last line when it has more than one) with the style-reference spans
\* removed and the edges cleaned; it is the trimmed input when that is one
\* line with no '<' and no wrapping punctuation.
C8_PositiveIsCleanedBlock ==
    (pc = "done" /\ ~HasMarker(raw)) =>
        /\ forge.negative = <<>>
        /\ forge.positive = cleanEdges(LoraRemove(Trim(PromptBlock(raw))))
        /\ (SingleLine(raw) /\ NothingToClean(Trim(raw))) => forge.positive = Trim(raw)

\* A run on a marker-free annotation of several lines with a span in it.
C8_Witness ==
    /\ pc = "done"
    /\ ~HasMarker(raw)
    /\ ~SingleLine(raw)
    /\ forge.lora # <<>>
    /\ forge.positive # <<>>
    /\ forge.positive # Trim(raw)

ColonCount(s) == Cardinality({i \in 1..Len(s) : s[i] = ":"})

Contains(s, sub) ==
    \E i \in 0..Len(s) : i + Len(sub) <= Len(s) /\ SubSeq(s, i + 1, i + Len(sub)) = sub

LoraValue ==
    LET i == CHOOSE i \in 1..Len(forge.output) : forge.output[i].key = <<"LoRA:">>
    IN  forge.output[i].value

\* C9: a style-reference span that is not of the three-part shape appears
\* in the LoRA entry with its angle brackets replaced by escaped glyphs, and
\* no raw '<' or '>' of the annotation is in the entry.
C9_SpansEscaped ==
    (pc = "done" /\ ~forge.threw) =>
        \A k \in 1..Len(forge.lora) :
            LET span == forge.lora[k]
            IN  ColonCount(span) < 2 =>
                  /\ Contains(LoraValue,
                              <<"&lt">> \o SubSeq(span, 2, Len(span) - 1) \o <<"&gt">>)
                  /\ ~HasChar(LoraValue, "<")
                  /\ ~HasChar(LoraValue, ">")

\* The occurrences <<i, j>> of a span <a:b:c> in s: an opening bracket, a
\* closing bracket, no bracket between them and at least two colons.
ThreePartSpans(s) ==
    {o \in (1..Len(s)) \X (1..Len(s)) :
        /\ o[1] < o[2] /\ s[o[1]] = "<" /\ s[o[2]] = ">"
        /\ \A k \in (o[1] + 1)..(o[2] - 1) : s[k] \notin {"<", ">"}
        /\ ColonCount(SubSeq(s, o[1], o[2])) >= 2}

\* The positive prompt run() extracts the style references from.
PositiveBefore == SplitPrompt(FirstLine(raw)).positive

\* s holds the elements of list as disjoint substrings, in the list's order.
RECURSIVE InOrder(_, _)
InOrder(list, s) ==
    IF list = <<>> THEN TRUE
    ELSE \E i \in 0..Len(s) :
            /\ i + Len(Head(list)) <= Len(s)
            /\ SubSeq(s, i + 1, i + Len(Head(list))) = Head(list)
            /\ InOrder(Tail(list), SubSeq(s, i + Len(Head(list)) + 1, Len(s)))

HasBracketSpan(s) ==
    \E i, j \in 1..Len(s) :
        /\ i + 1 < j /\ s[i] = "<" /\ s[j] = ">"
        /\ \A k \in (i + 1)..(j - 1) : s[k] # ">"

\* C10: every span <a:b:c> of the positive prompt is an element of the
\* style-reference list verbatim, the list is in order of appearance, and
\* the returned positive prompt holds no angle-bracket-delimited span.
C10_SpansExtracted ==
    (pc = "done" /\ ~forge.threw) =>
        /\ \A o \in ThreePartSpans(PositiveBefore) :
              \E k \in 1..Len(forge.lora) :
                  forge.lora[k] = SubSeq(PositiveBefore, o[1], o[2])
        /\ InOrder(forge.lora, PositiveBefore)
        /\ ~HasBracketSpan(forge.positive)
(***************************************************************************)
(* C2, C3, C5: the EXIF reader and parceMetadata.                          *)
(***************************************************************************)
\* C2: when the Exif directory holds a UserComment entry, the `parameters`
\* given to parceMetadata is that entry's decoded value, whatever other
\* entries with unknown tag ids the directory holds.
C2_UserCommentIsAnnotation ==
    (pc = "done" /\ exif.kind = "report" /\ HasKey(exif.exifData, "UserComment")) =>
        exif.tags.parameters = Get(exif.exifData, "UserComment")

\* The entry readTagValue was given, read back from the file.
TagType == getUint16(tagIn.file, tagIn.entryOffset + 2, ~tagIn.bigEnd)
TagCount == Index(getUint32(tagIn.file, tagIn.entryOffset + 4, ~tagIn.bigEnd))
TagField == Index(getUint32(tagIn.file, tagIn.entryOffset + 8, ~tagIn.bigEnd))

\* Where the claim puts the value: 0-based offset of its first byte.
TagValueAt ==
    IF TagCount > 4 THEN tagIn.tiffStart + TagField ELSE tagIn.entryOffset + 8

\* C3: a type-7 entry with count n decodes to the bytes at value positions
\* 8 .. n-1, the value lying at tiffStart + value field when n > 4 and
\* inline otherwise.
C3_CommentAfterPrefix ==
    (pc = "done" /\ TagType = 7 /\ InBounds(tagIn.file, TagValueAt, TagCount)) =>
        tagOut = StrValue([k \in 1..(TagCount - 8) |->
                              fromCharCode(tagIn.file[TagValueAt + 8 + k])])

\* C5: an Error entry is the only entry of its report, and when the
\* parameters parser throws and the prompt parser then succeeds the report
\* is the prompt parser's output, without an Error entry.
C5_ErrorStandsAlone ==
    pc = "done" =>
        /\ HasKey(parce.result, ErrorKey) => Len(parce.result) = 1
        /\ (parce.forgeThrew /\ parce.comfyRan /\ ~parce.comfyThrew) =>
              /\ parce.result = ComfyRun(metadata.prompt).output
              /\ ~HasKey(parce.result, ErrorKey)

\* parceMetadata ran the parameters parser, which threw, and then the
\* prompt parser, which did not.
C5_Witness ==
    /\ pc = "done"
    /\ parce.forgeRan /\ parce.forgeThrew
    /\ parce.comfyRan /\ ~parce.comfyThrew
    /\ parce.result # <<>>
(***************************************************************************)
(* C1, C4: the report and the failures of a file load.                     *)
(***************************************************************************)
Completed(c) == c.state \in {"shown", "failed"}

\* C1: the report readMetadata returns for an accepted file is never
\* empty; when no parser produced a report it is the single Error entry
\* with the fixed message.
C1_ReportNeverEmpty ==
    \A i \in 1..Len(calls) :
        Completed(calls[i]) =>
            /\ calls[i].metadata # <<>>
            /\ ~calls[i].parsed => calls[i].metadata = ErrorReport(NoSections)

\* C4: on the JPEG path no exception leaves the extractor and no failure
\* is surfaced as an error; a load that finds no annotation still shows
\* the image.
C4_NoExtractorException ==
    \A i \in 1..Len(calls) :
        (Completed(calls[i]) /\ calls[i].file.type = "image/jpeg") =>
            /\ calls[i].reader # "throw"
            /\ ~calls[i].caught
            /\ calls[i].reader # "report" =>
                  (calls[i].metadata = <<>> /\ calls[i].state = "shown")

(***************************************************************************)
(* Specification of the report ForgeUI.run builds, over annotations whose  *)
(* last line is a settings line of at most MaxSettings segments: a prompt  *)
(* block (or none, for a one-line annotation) followed by segments         *)
(* "key: value" joined with commas.                                        *)
(***************************************************************************)
SettingKeys == {<<"a">>, ModelKey, <<"<">>}

SettingValues == {<<"7">>, <<"a">>, <<"<">>}

Segments == {k \o <<":", " ">> \o v : k \in SettingKeys, v \in SettingValues} \cup {<<"a">>}

RECURSIVE JoinSegments(_)
JoinSegments(ss) ==
    IF Len(ss) = 0 THEN <<>>
    ELSE IF Len(ss) = 1 THEN ss[1]
    ELSE ss[1] \o <<",">> \o JoinSegments(Tail(ss))

PromptBlocks ==
    {<<"a">>,
     <<"a", " ">> \o SpanPiece,
     <<"a">> \o Separator \o <<"a">>,
     SpanPiece \o Separator \o <<"a">>}

PromptPrefixes == {<<>>} \cup {b \o <<"\n">> : b \in PromptBlocks}

ReportAnnotations ==
    {p \o JoinSegments(ss) : p \in PromptPrefixes, ss \in StringsUpTo(Segments, MaxSettings)}

InitReport ==
    /\ pc = "start"
    /\ raw \in ReportAnnotations
    /\ colors \in BOOLEAN
    /\ forge = ForgeConstructed
    /\ ParamsIdle /\ ParceIdle /\ ExifIdle /\ TagIdle /\ UploaderIdle

BuildReport ==
    /\ pc = "start"
    /\ pc' = "done"
    /\ forge' = ForgeRun(raw, colors)
    /\ UNCHANGED <<raw, colors, paramsVars, parceVars, exifVars, tagVars, uploaderVars>>

NextReport == BuildReport

SpecReport == InitReport /\ [][NextReport]_vars

(***************************************************************************)
(* C11, C12: the report of ForgeUI.run.                                    *)
(***************************************************************************)
\* The settings of the settings line as forge.params holds them, and the
\* report key of the i-th of them.
SettingKeyAt(i) == escapeHTML(forge.params[i].key) \o <<":", " ">>

FirstOccurrences ==
    {i \in 1..Len(forge.params) : \A j \in 1..(i - 1) : SettingKeyAt(j) # SettingKeyAt(i)}

LastOccurrence(i) ==
    CHOOSE j \in 1..Len(forge.params) :
        /\ SettingKeyAt(j) = SettingKeyAt(i)
        /\ \A k \in (j + 1)..Len(forge.params) : SettingKeyAt(k) # SettingKeyAt(i)

NthFirstOccurrence(n) ==
    CHOOSE i \in FirstOccurrences : Cardinality({q \in FirstOccurrences : q < i}) = n - 1

HeaderKeys ==
    <<(<<"Prompt:<br>">>)>>
        \o (IF forge.negative # <<>> THEN <<(<<"Negative Prompt:<br>">>)>> ELSE <<>>)
        \o (IF forge.lora # <<>> THEN <<(<<"LoRA:">>)>> ELSE <<>>)

ReportKeys == [i \in 1..Len(forge.output) |-> forge.output[i].key]

SettingsKeysInOrder ==
    [n \in 1..Cardinality(FirstOccurrences) |-> SettingKeyAt(NthFirstOccurrence(n))]

\* C11: the report's keys are the prompt, the negative prompt iff it is not
\* empty, the style references iff a span was found, then the settings keys
\* in the order of their first appearance on the settings line, each once;
\* the entry of a settings key holds the value of its last occurrence.
C11_ReportOrder ==
    (pc = "done" /\ ~forge.threw) =>
        /\ ReportKeys = HeaderKeys \o SettingsKeysInOrder
        /\ \A n \in 1..Cardinality(FirstOccurrences) :
              forge.output[Len(HeaderKeys) + n].value
                  = ParamValue(forge.params[LastOccurrence(NthFirstOccurrence(n))])

\* A report with all three leading entries and a settings key that occurs
\* twice with different values, between and before other settings.
C11_Witness ==
    /\ pc = "done" /\ ~forge.threw
    /\ Len(HeaderKeys) = 3
    /\ Len(forge.params) = 3
    /\ Cardinality(FirstOccurrences) = 2
    /\ \E i \in FirstOccurrences :
          /\ LastOccurrence(i) # i
          /\ forge.params[LastOccurrence(i)].value # forge.params[i].value

\* The entry of the report under key k; the report's keys are distinct.
HasEntry(k) == \E n \in 1..Len(forge.output) : forge.output[n].key = k

EntryOf(k) == forge.output[CHOOSE n \in 1..Len(forge.output) : forge.output[n].key = k]

\* What the claim says a setting {key, value} is rendered as.
Rendered(obj) ==
    IF isNumber(obj.value) THEN <<"color_int">> \o escapeHTML(obj.value)
    ELSE IF obj.key = ModelKey THEN <<"color_file">> \o escapeHTML(obj.value)
    ELSE escapeHTML(obj.value)

\* C12: every setting that is the last with its key has an entry under its
\* escaped key followed by ": ", whose value is the escaped value, behind
\* the unescaped numeric marker when the value is numeric (whatever the
\* key), else behind the unescaped file marker when the key is "Model",
\* else with no marker.
C12_ValueTyped ==
    (pc = "done" /\ ~forge.threw) =>
        \A i \in 1..Len(forge.params) :
            LastOccurrence(i) = i =>
                /\ HasEntry(escapeHTML(forge.params[i].key) \o <<":", " ">>)
                /\ EntryOf(escapeHTML(forge.params[i].key) \o <<":", " ">>).value
                      = Rendered(forge.params[i])

\* A report with a numeric "Model", and with a key and a non-numeric value
\* that escaping changes.
C12_Witness ==
    /\ pc = "done" /\ ~forge.threw
    /\ Len(forge.params) = 3
    /\ Cardinality(FirstOccurrences) = 3
    /\ \E i \in 1..3 : forge.params[i].key = ModelKey /\ isNumber(forge.params[i].value)
    /\ \E i \in 1..3 :
          /\ ~isNumber(forge.params[i].value)
          /\ escapeHTML(forge.params[i].value) # forge.params[i].value
    /\ \E i \in 1..3 : escapeHTML(forge.params[i].key) # forge.params[i].key

\* A "Model" setting with a value that is not numeric, rendered as a file.
C12_ModelWitness ==
    /\ pc = "done" /\ ~forge.threw
    /\ \E i \in 1..Len(forge.params) :
          /\ forge.params[i].key = ModelKey
          /\ ~isNumber(forge.params[i].value)
          /\ LastOccurrence(i) = i

(***************************************************************************)
(* C13, C14: the preview object URLs of successive loads.                  *)
(***************************************************************************)
\* The object URLs created so far that were not revoked.
Unrevoked == (1..created) \ revoked

\* C13: at most one object URL created by the uploader is unrevoked, and
\* currentObjectURL is null or that URL.
C13_OneLiveObjectURL ==
    /\ Cardinality(Unrevoked) <= 1
    /\ currentObjectURL = 0 \/ Unrevoked = {currentObjectURL}

\* A second load has started: the URL of the first is revoked.
C13_Witness ==
    /\ Len(calls) = 2
    /\ created = 2
    /\ revoked = {1}
    /\ currentObjectURL = 2

\* C14: once two selected files have both been read and displayed (and
\* destroy() was not called since the second was selected), the container
\* holds the image and the report of the second, and the image's source is
\* currentObjectURL, which is not revoked.
C14_LastSelectedShown ==
    (/\ Len(calls) = 2
     /\ currentObjectURL # 0
     /\ \A i \in 1..2 : calls[i].state = "shown" /\ calls[i].reader = "report") =>
        /\ container.img = calls[2].url
        /\ container.report = calls[2].metadata
        /\ container.img = currentObjectURL
        /\ container.img \notin revoked

(***************************************************************************)
(* Specification of the marker loop of readEXIFMetadata, one iteration at  *)
(* a time, over buffers that start with the JPEG signature (or not) and    *)
(* go on with at most MaxSegments pieces: a marker with a declared length  *)
(* of 0 to 3 and a payload of 0 or 1 bytes, or the beginning of one.       *)
(***************************************************************************)
SegmentPieces ==
    {<<255, marker>> \o Bytes16(len, FALSE) \o Zeros(pay) :
        marker \in {224, 225}, len \in 0..3, pay \in 0..1}
        \cup {<<0>>, <<255>>, <<255, 224>>, <<255, 224, 0>>}

ScanInputs ==
    {<<>>, <<255>>, <<0, 0>>, <<255, 0>>}
        \cup {<<255, 216>> \o Flatten(ps) : ps \in StringsUpTo(SegmentPieces, MaxSegments)}

MutScanAdvance(file, offset) == offset + getUint16(file, offset + 2, FALSE)

\* offset += 2 + dataView.getUint16(offset+2)
ScanAdvance(file, offset) == offset + 2 + getUint16(file, offset + 2, FALSE)

InitScan ==
    /\ pc = "start"
    /\ jpeg \in ScanInputs
    /\ colors = TRUE
    /\ exif = ExifOutcome("undefined")
    /\ scanOffset = 0
    /\ ParamsIdle /\ ForgeIdle /\ ParceIdle /\ TagIdle /\ UploaderIdle

Return(outcome) == pc' = "done" /\ exif' = outcome /\ UNCHANGED scanOffset

\* readEXIFMetadata from the buffer to the loop: the signature test.
EnterScan ==
    /\ pc = "start"
    /\ IF ~InBounds(jpeg, 0, 1) THEN Return(ExifOutcome("throw"))
       ELSE IF getUint8(jpeg, 0) # 255 THEN Return(ExifOutcome("false"))
       ELSE IF ~InBounds(jpeg, 1, 1) THEN Return(ExifOutcome("throw"))
       ELSE IF getUint8(jpeg, 1) # 216 THEN Return(ExifOutcome("false"))
       ELSE pc' = "scan" /\ scanOffset' = 2 /\ UNCHANGED exif
    /\ UNCHANGED <<jpeg, colors, paramsVars, forgeVars, parceVars, tagVars, uploaderVars>>

\* The loop test and one run of the loop body.
ScanIteration ==
    /\ pc = "scan"
    /\ IF ~(scanOffset < Len(jpeg)) THEN Return(ExifOutcome("undefined"))
       ELSE IF getUint8(jpeg, scanOffset) # 255 THEN Return(ExifOutcome("false"))
       ELSE IF ~InBounds(jpeg, scanOffset + 1, 1) THEN Return(ExifOutcome("throw"))
       ELSE IF ~InBounds(jpeg, scanOffset + 2, 2) THEN Return(ExifOutcome("throw"))
       ELSE IF getUint8(jpeg, scanOffset + 1) = 225
       THEN Return(readEXIFData(jpeg, scanOffset + 4, colors))
       ELSE /\ scanOffset' = ScanAdvance(jpeg, scanOffset)
            /\ UNCHANGED <<pc, exif>>
    /\ UNCHANGED <<jpeg, colors, paramsVars, forgeVars, parceVars, tagVars, uploaderVars>>

NextScan == EnterScan \/ ScanIteration

SpecScan == InitScan /\ [][NextScan]_vars

\* An async function that is running runs on: readEXIFMetadata has no
\* await after the buffer is read.
SpecScanFair == SpecScan /\ WF_vars(NextScan)

(***************************************************************************)
(* C15.                                                                    *)
(***************************************************************************)
\* The step-by-step loop returns what readEXIFMetadata returns.
ScanAgrees == pc = "done" => exif = readEXIFMetadata(jpeg, colors)

\* C15: every iteration of the marker loop that neither returns nor raises
\* moves the offset forward, and the loop ends: readEXIFMetadata returns
\* or raises, whatever lengths the segments declare.
C15_ScanTerminates ==
    /\ [][(pc = "scan" /\ pc' = "scan") => scanOffset' > scanOffset]_vars
    /\ <>(pc = "done")

\* The loop has gone past a segment that declares the length 0, by 2 bytes,
\* and has ended on the next iteration, in a buffer that goes on.
C15_Witness ==
    /\ pc = "done"
    /\ Len(jpeg) >= 10
    /\ SubSeq(jpeg, 3, 6) = <<255, 224, 0, 0>>
    /\ scanOffset = 4
    /\ exif.kind = "false"
====
